---- MODULE Spec2Model ----
(***************************************************************************)
(* Conway's Game of Life engine of RustyGameOfLife: the grid of cells      *)
(* (cells.rs), the board with its construction, seeding, neighbour         *)
(* counting and generation transition (life.rs), and the driver loop with  *)
(* its history queue (main.rs).                                            *)
(*                                                                         *)
(* A Vec is a sequence; the Rust index i is the sequence index i + 1.      *)
(* An i32 is the integer itself (every i32 is a TLC integer).  A usize is  *)
(* held as the two's-complement reading of its bits, so the usize got from *)
(* a negative i32 by `as usize` (2^64 + v) is held as v: it is below no    *)
(* Vec length, and adding k to it carries out of the word exactly when the *)
(* sum is no longer negative.                                              *)
(***************************************************************************)
EXTENDS Integers, Sequences, FiniteSets, TLC

VARIABLES
    t,          \* the Term handed to LifeBoard::from
    lb,         \* the board the caller holds (main.rs: lb)
    next,       \* process: the clone being written
    pc,         \* where the program is
    pos,        \* process: how many cells of the clone the sweep has visited
    neighbours, \* process: the last value of the local `neighbours`
    indexed,    \* the grid positions the last count_neighbours indexed
    pre,        \* process: the board as it was when process was entered
    readGrid,   \* process: the grid the last count_neighbours was called on
    generation, \* how many times process has returned
    kind,       \* the last insert_* called: "oscillator", "glider" or "none"
    anchor,     \* its top_left argument
    result,     \* its outcome: "None", "Some", "panic", or "none" (not called)
    before,     \* the grid as it was when it was called
    reassigned, \* assign_locations has run again since it returned
    history     \* main.rs: the VecDeque of boards

vars == <<t, lb, next, pc, pos, neighbours, indexed, pre, readGrid, generation,
          kind, anchor, result, before, reassigned, history>>

(***************************************************************************)
(* Bounds of the model.                                                    *)
(***************************************************************************)
MaxW == 4
MaxH == 4
MaxAlive == 1
MaxGen == 2
BlinkerGens == 5
DriverW == 3
DriverH == 3
DriverAlive == 3
MaxIter == 5

(***************************************************************************)
(* Program constants.                                                      *)
(***************************************************************************)
I32_MAX == 2147483647
history_len == 4
thingy_width == 3
thingy_height == 3
glider_width == 3
glider_height == 3

(***************************************************************************)
(* cells.rs                                                                *)
(***************************************************************************)
CellState == {"Alive", "Dead"}

CellStateDefault == "Dead"

CellLocation(r, c) == [r |-> r, c |-> c]

CellLocationDefault == CellLocation(0, 0)

CellDefault == [state |-> CellStateDefault, location |-> CellLocationDefault]

Direction == {"TopLeft", "TopMiddle", "TopRight", "Left", "Right",
              "BottomLeft", "BottomMiddle", "BottomRight"}

LocationAdd(a, b) == CellLocation(a.r + b.r, a.c + b.c)

\* The mapping with TopRight given TopMiddle's offset.
LocationFromDirection_slip(dir) ==
    CASE dir = "TopLeft"      -> CellLocation(-1, -1)
      [] dir = "TopMiddle"    -> CellLocation(-1, 0)
      [] dir = "TopRight"     -> CellLocation(-1, 0)
      [] dir = "Left"         -> CellLocation(0, -1)
      [] dir = "Right"        -> CellLocation(0, 1)
      [] dir = "BottomLeft"   -> CellLocation(1, -1)
      [] dir = "BottomMiddle" -> CellLocation(1, 0)
      [] dir = "BottomRight"  -> CellLocation(1, 1)

\* impl From<Direction> for CellLocation
LocationFromDirection(dir) ==
    CASE dir = "TopLeft"      -> CellLocation(-1, -1)
      [] dir = "TopMiddle"    -> CellLocation(-1, 0)
      [] dir = "TopRight"     -> CellLocation(-1, 1)
      [] dir = "Left"         -> CellLocation(0, -1)
      [] dir = "Right"        -> CellLocation(0, 1)
      [] dir = "BottomLeft"   -> CellLocation(1, -1)
      [] dir = "BottomMiddle" -> CellLocation(1, 0)
      [] dir = "BottomRight"  -> CellLocation(1, 1)

(***************************************************************************)
(* Machine arithmetic and Vec indexing.                                    *)
(***************************************************************************)
\* a + b on i32, b >= 0: whether it overflows, and the wrapped sum.
I32Add(a, b) ==
    IF a > I32_MAX - b
    THEN [overflow |-> TRUE, value |-> ((a - I32_MAX) + (b - 1)) - I32_MAX - 1]
    ELSE [overflow |-> FALSE, value |-> a + b]

\* v as usize, for an i32 v (sign extension keeps the two's-complement reading).
AsUsize(v) == v

\* u + k on usize, k >= 0: it carries out of the word when u reads negative
\* and the sum does not. A sum above i32::MAX is held as i32::MAX: the Vec
\* lengths come from i32 dimensions, so both are past the end of every Vec.
UsizeAdd(u, k) ==
    IF u > I32_MAX - k THEN [overflow |-> FALSE, value |-> I32_MAX]
    ELSE [overflow |-> (u < 0 /\ u + k >= 0), value |-> u + k]

\* The bounds check of Vec indexing.
IndexOk(vec, i) == i >= 0 /\ i < Len(vec)

\* cells[r][c] is inside the grid.
InGrid(cells, r, c) == IndexOk(cells, r) /\ IndexOk(cells[r + 1], c)

(***************************************************************************)
(* life.rs: the board.                                                     *)
(***************************************************************************)
Term(w, h) == [w |-> w, h |-> h]

\* Distribution<CellState> for Standard: gen_range(0, 2) gives 0 or 1.
SampleCellState(n) == IF n = 0 THEN "Alive" ELSE "Dead"

\* assign_locations with the row and column index swapped in the location.
assign_locations_transposed(board, draw) ==
    [board EXCEPT !.cells =
        [r \in 1..Len(board.cells) |->
            [c \in 1..Len(board.cells[r]) |->
                [location |-> CellLocation(c - 1, r - 1),
                 state |-> SampleCellState(draw[<<r - 1, c - 1>>])]]]]

\* assign_locations: every cell gets its index as location and a freshly
\* drawn state; draw[<<r, c>>] is what thread_rng gave for that cell.
assign_locations(board, draw) ==
    [board EXCEPT !.cells =
        [r \in 1..Len(board.cells) |->
            [c \in 1..Len(board.cells[r]) |->
                [location |-> CellLocation(r - 1, c - 1),
                 state |-> SampleCellState(draw[<<r - 1, c - 1>>])]]]]

\* vec![vec![Cell::default(); t.w as usize]; t.h as usize]
Allocate(term) ==
    [iteration |-> 0,
     cells |-> [r \in 1..term.h |-> [c \in 1..term.w |-> CellDefault]],
     dimensions |-> term]

\* impl From<Term> for LifeBoard
From(term, draw) == assign_locations(Allocate(term), draw)

\* All subsets of S with at most n elements.
RECURSIVE SubsetsUpTo(_, _)
SubsetsUpTo(S, n) ==
    IF n = 0 THEN {{}}
    ELSE LET P == SubsetsUpTo(S, n - 1)
         IN  P \cup {p \cup {x} : p \in P, x \in S}

\* The outcomes of the random draws for a w x h grid in which at most
\* `most` cells come out Alive.
Draws(w, h, most) ==
    LET G == (0..(h - 1)) \X (0..(w - 1))
    IN  {[idx \in G |-> IF idx \in S THEN 0 ELSE 1] : S \in SubsetsUpTo(G, most)}

\* get_relative_cell without the check against the far edges.
get_relative_cell_unchecked(self, from, dir) ==
    LET delta == LocationFromDirection(dir)
        next_location == LocationAdd(from.location, delta)
    IN  IF next_location.c < 0 \/ next_location.r < 0
        THEN [some |-> FALSE, at |-> CellLocationDefault]
        ELSE [some |-> TRUE, at |-> next_location]

\* get_relative_cell: None, or the position of self.cells it indexes.
get_relative_cell(self, from, dir) ==
    LET delta == LocationFromDirection(dir)
        next_location == LocationAdd(from.location, delta)
    IN  IF next_location.c < 0 \/ next_location.r < 0
        THEN [some |-> FALSE, at |-> CellLocationDefault]
        ELSE IF next_location.c >= self.dimensions.w
                \/ next_location.r >= self.dimensions.h
        THEN [some |-> FALSE, at |-> CellLocationDefault]
        ELSE [some |-> TRUE, at |-> next_location]

\* The tail of count_neighbours: cells is the Vec of the eight lookups; the
\* Some ones, the Alive ones among them, their number. panic: a lookup
\* indexed outside the Vec.
Tally(self, cells) ==
    LET somes == SelectSeq(cells, LAMBDA n : n.some)
        inside == SelectSeq(somes, LAMBDA n : InGrid(self.cells, n.at.r, n.at.c))
        alives == SelectSeq(inside,
                      LAMBDA n : self.cells[n.at.r + 1][n.at.c + 1].state = "Alive")
    IN  [panic |-> Len(inside) # Len(somes),
         indexed |-> {somes[i].at : i \in 1..Len(somes)},
         count |-> Len(alives)]

\* count_neighbours: the eight lookups in the order of the source.
count_neighbours(self, c) ==
    Tally(self, <<get_relative_cell(self, c, "TopLeft"),
                  get_relative_cell(self, c, "TopRight"),
                  get_relative_cell(self, c, "TopMiddle"),
                  get_relative_cell(self, c, "BottomLeft"),
                  get_relative_cell(self, c, "BottomRight"),
                  get_relative_cell(self, c, "BottomMiddle"),
                  get_relative_cell(self, c, "Left"),
                  get_relative_cell(self, c, "Right")>>)

\* The match of process with survival on two neighbours only.
NextState_survive2(state, n) ==
    IF state = "Alive"
    THEN (IF n # 2 THEN "Dead" ELSE state)
    ELSE (IF n = 3 THEN "Alive" ELSE state)

\* process, the match on cell.state: the state the cell is left in.
NextState(state, n) ==
    IF state = "Alive"
    THEN (IF n # 2 /\ n # 3 THEN "Dead" ELSE state)
    ELSE (IF n = 3 THEN "Alive" ELSE state)

\* An in-place sweep: the counts are taken on the board being written.
SweepSource_inplace(self, nxt) == nxt

\* process: the board count_neighbours is called on (`self`, not `next`).
SweepSource(self, nxt) == self

\* process, the body of the inner loop on the cell at (r, c) of the clone,
\* given the grid that was read and what count_neighbours returned.
Visit(nxt, r, c, read, cn) ==
    [panic |-> cn.panic,
     neighbours |-> cn.count,
     indexed |-> cn.indexed,
     read |-> read,
     next |-> IF cn.panic THEN nxt
              ELSE [nxt EXCEPT !.cells[r + 1][c + 1].state =
                                    NextState(nxt.cells[r + 1][c + 1].state, cn.count)]]

\* process, one turn of the inner loop:
\*   let neighbours = self.count_neighbours(cell); match cell.state { .. }
SweepStep(self, nxt, r, c) ==
    Visit(nxt, r, c, SweepSource(self, nxt).cells,
          count_neighbours(SweepSource(self, nxt), nxt.cells[r + 1][c + 1]))

\* The width of the rows the sweep walks, and the number of cells it visits.
RowLen(board) == IF Len(board.cells) = 0 THEN 0 ELSE Len(board.cells[1])
CellCount(board) == Len(board.cells) * RowLen(board)

\* process, run to its end from the k-th cell on.
RECURSIVE Sweep(_, _, _)
Sweep(self, nxt, k) ==
    IF k >= CellCount(nxt) THEN nxt
    ELSE Sweep(self, SweepStep(self, nxt, k \div RowLen(nxt), k % RowLen(nxt)).next, k + 1)

\* process(self) -> Self
process(self) == Sweep(self, self, 0)

(***************************************************************************)
(* life.rs: seeding.  overflow_checks is the build's setting: with it an   *)
(* overflowing + panics, without it the sum wraps.                         *)
(***************************************************************************)
\* top_left.r as usize + d; a bare `top_left.r as usize` when d = 0.
UsizeOffset(v, d) ==
    IF d = 0 THEN [overflow |-> FALSE, value |-> AsUsize(v)]
    ELSE UsizeAdd(AsUsize(v), d)

\* self.cells[top_left.r as usize + dr][top_left.c as usize + dc].state = Alive
SetAlive(cells, top_left, dr, dc, overflow_checks) ==
    LET ri == UsizeOffset(top_left.r, dr)
        ci == UsizeOffset(top_left.c, dc)
    IN  IF ri.overflow /\ overflow_checks THEN [panic |-> TRUE, cells |-> cells]
        ELSE IF ~IndexOk(cells, ri.value) THEN [panic |-> TRUE, cells |-> cells]
        ELSE IF ci.overflow /\ overflow_checks THEN [panic |-> TRUE, cells |-> cells]
        ELSE IF ~IndexOk(cells[ri.value + 1], ci.value)
        THEN [panic |-> TRUE, cells |-> cells]
        ELSE [panic |-> FALSE,
              cells |-> [cells EXCEPT ![ri.value + 1][ci.value + 1].state = "Alive"]]

\* The assignments of a pattern in program order, up to the first that panics.
RECURSIVE SetAllAlive(_, _, _, _)
SetAllAlive(cells, top_left, offsets, overflow_checks) ==
    IF offsets = <<>> THEN [panic |-> FALSE, cells |-> cells]
    ELSE LET one == SetAlive(cells, top_left, offsets[1][1], offsets[1][2],
                             overflow_checks)
         IN  IF one.panic THEN one
             ELSE SetAllAlive(one.cells, top_left, Tail(offsets), overflow_checks)

\* The test made one column and one row too strict.
FarEdgeTest_strict(self, top_left, width, height, overflow_checks) ==
    LET cw == I32Add(top_left.c, width + 1)
        rh == I32Add(top_left.r, height + 1)
    IN  IF cw.overflow /\ overflow_checks THEN "panic"
        ELSE IF cw.value >= self.dimensions.w THEN "None"
        ELSE IF rh.overflow /\ overflow_checks THEN "panic"
        ELSE IF rh.value >= self.dimensions.h THEN "None"
        ELSE "go on"

\* The bounds test both insert_* start with:
\*   top_left.c + width >= dimensions.w || top_left.r + height >= dimensions.h
\* "panic" (the + overflowed under overflow checks), "None" or "go on".
FarEdgeTest(self, top_left, width, height, overflow_checks) ==
    LET cw == I32Add(top_left.c, width)
        rh == I32Add(top_left.r, height)
    IN  IF cw.overflow /\ overflow_checks THEN "panic"
        ELSE IF cw.value >= self.dimensions.w THEN "None"
        ELSE IF rh.overflow /\ overflow_checks THEN "panic"
        ELSE IF rh.value >= self.dimensions.h THEN "None"
        ELSE "go on"

\* The cells insert_oscillator sets, as (row, column) offsets from top_left.
OscillatorOffsets == <<<<0, 1>>, <<1, 1>>, <<2, 1>>>>

\* The cells insert_glider sets, in program order.
GliderOffsets == <<<<0, 1>>, <<1, 2>>, <<2, 0>>, <<2, 1>>, <<2, 2>>>>

\* A seeding that returns Some before its last assignment.
Seed_short(self, top_left, width, height, offsets, overflow_checks) ==
    LET test == FarEdgeTest(self, top_left, width, height, overflow_checks)
        done == SetAllAlive(self.cells, top_left, SubSeq(offsets, 1, Len(offsets) - 1),
                            overflow_checks)
    IN  IF test # "go on" THEN [ret |-> test, board |-> self]
        ELSE [ret |-> IF done.panic THEN "panic" ELSE "Some",
              board |-> [self EXCEPT !.cells = done.cells]]

\* The body the two insert_* share: the test, the assignments, Some(top_left).
Seed(self, top_left, width, height, offsets, overflow_checks) ==
    LET test == FarEdgeTest(self, top_left, width, height, overflow_checks)
        done == SetAllAlive(self.cells, top_left, offsets, overflow_checks)
    IN  IF test # "go on" THEN [ret |-> test, board |-> self]
        ELSE [ret |-> IF done.panic THEN "panic" ELSE "Some",
              board |-> [self EXCEPT !.cells = done.cells]]

insert_oscillator(self, top_left, overflow_checks) ==
    Seed(self, top_left, thingy_width, thingy_height, OscillatorOffsets, overflow_checks)

insert_glider(self, top_left, overflow_checks) ==
    Seed(self, top_left, glider_width, glider_height, GliderOffsets, overflow_checks)

(***************************************************************************)
(* main.rs: the history queue.                                             *)
(***************************************************************************)
push_front(q, x) == <<x>> \o q

push_back(q, x) == Append(q, x)

\* An eviction at the wrong end of the queue.
pop_back(q) == SubSeq(q, 1, Len(q) - 1)

pop_front(q) == Tail(q)

(***************************************************************************)
(* The state machine.                                                      *)
(***************************************************************************)
NoBoard == [iteration |-> 0, cells |-> <<>>, dimensions |-> Term(0, 0)]

\* The top_left coordinates tried: around and inside the grid, and the
\* largest i32.
AnchorRows == ((-1)..MaxH) \cup {I32_MAX}
AnchorCols == ((-1)..MaxW) \cup {I32_MAX}

NoSweep ==
    /\ next = NoBoard /\ pre = NoBoard /\ pos = 0
    /\ neighbours = 0 /\ indexed = {} /\ readGrid = <<>>

NoSeed ==
    /\ kind = "none" /\ anchor = CellLocationDefault /\ result = "none"
    /\ before = <<>> /\ reassigned = FALSE

\* LifeBoard::from(Term { w, h }) has returned.
Init ==
    /\ t \in {Term(w, h) : w \in 1..MaxW, h \in 1..MaxH}
    /\ lb \in {From(t, draw) : draw \in Draws(t.w, t.h, MaxAlive)}
    /\ pc = "idle"
    /\ generation = 0
    /\ history = <<>>
    /\ NoSweep
    /\ NoSeed

\* What a call of insert_oscillator or insert_glider leaves behind: out is
\* what the call returned and the board it left.
Insert(which, out, top_left) ==
    /\ lb' = out.board
    /\ kind' = which
    /\ anchor' = top_left
    /\ result' = out.ret
    /\ before' = lb.cells
    /\ reassigned' = FALSE
    /\ pc' = IF out.ret = "panic" THEN "panic" ELSE "idle"
    /\ UNCHANGED <<t, next, pos, neighbours, indexed, pre, readGrid, generation, history>>

\* The caller seeds once, before the first generation; the anchor and the
\* build's overflow checks are free.
InsertOscillator ==
    /\ pc = "idle" /\ generation = 0 /\ result = "none"
    /\ \E r \in AnchorRows, c \in AnchorCols, overflow_checks \in BOOLEAN :
          Insert("oscillator",
                 insert_oscillator(lb, CellLocation(r, c), overflow_checks),
                 CellLocation(r, c))

InsertGlider ==
    /\ pc = "idle" /\ generation = 0 /\ result = "none"
    /\ \E r \in AnchorRows, c \in AnchorCols, overflow_checks \in BOOLEAN :
          Insert("glider",
                 insert_glider(lb, CellLocation(r, c), overflow_checks),
                 CellLocation(r, c))

\* The randomize-and-assign pass run on a board that holds a pattern and
\* nothing else (the pass overwrites every cell, whatever it held).
AssignLocations ==
    /\ pc = "idle" /\ generation = 0 /\ result = "Some" /\ ~reassigned
    /\ \A r \in 1..Len(before) : \A c \in 1..Len(before[r]) : before[r][c].state = "Dead"
    /\ \E draw \in Draws(lb.dimensions.w, lb.dimensions.h, MaxAlive) :
          lb' = assign_locations(lb, draw)
    /\ reassigned' = TRUE
    /\ before' = <<>>
    /\ UNCHANGED <<t, next, pc, pos, neighbours, indexed, pre, readGrid, generation,
                   kind, anchor, result, history>>

\* process is entered: let mut next = self.clone().
ProcessBegin(most) ==
    /\ pc = "idle" /\ generation < most
    /\ next' = lb
    /\ pre' = lb
    /\ pos' = 0
    /\ pc' = "sweep"
    /\ neighbours' = 0 /\ indexed' = {} /\ readGrid' = <<>>
    /\ kind' = "none" /\ anchor' = CellLocationDefault /\ result' = "none"
    /\ before' = <<>> /\ reassigned' = FALSE
    /\ UNCHANGED <<t, lb, generation, history>>

\* One turn of the inner loop of process.
ProcessStep ==
    /\ pc = "sweep" /\ pos < CellCount(next)
    /\ \E st \in {SweepStep(lb, next, pos \div RowLen(next), pos % RowLen(next))} :
           /\ next' = st.next
           /\ neighbours' = st.neighbours
           /\ indexed' = st.indexed
           /\ readGrid' = st.read
           /\ pc' = IF st.panic THEN "panic" ELSE "sweep"
    /\ pos' = pos + 1
    /\ UNCHANGED <<t, lb, pre, generation, kind, anchor, result, before, reassigned,
                   history>>

\* process returns next; the caller's board is replaced by it.
ProcessReturn ==
    /\ pc = "sweep" /\ pos = CellCount(next)
    /\ lb' = next
    /\ generation' = generation + 1
    /\ pc' = "idle"
    /\ next' = NoBoard /\ pre' = NoBoard /\ pos' = 0
    /\ neighbours' = 0 /\ indexed' = {} /\ readGrid' = <<>>
    /\ UNCHANGED <<t, kind, anchor, result, before, reassigned, history>>

Next ==
    \/ InsertOscillator
    \/ InsertGlider
    \/ AssignLocations
    \/ ProcessBegin(MaxGen)
    \/ ProcessStep
    \/ ProcessReturn

Spec == Init /\ [][Next]_vars

(***************************************************************************)
(* The blinker: a 5 x 5 board on which the draws left exactly              *)
(* (1,2), (2,2), (3,2) Alive.                                              *)
(***************************************************************************)
VerticalBlinker == {<<1, 2>>, <<2, 2>>, <<3, 2>>}
HorizontalBlinker == {<<2, 1>>, <<2, 2>>, <<2, 3>>}

InitBlinker ==
    /\ t = Term(5, 5)
    /\ lb = From(t, [idx \in (0..4) \X (0..4) |->
                        IF idx \in VerticalBlinker THEN 0 ELSE 1])
    /\ pc = "idle"
    /\ generation = 0
    /\ history = <<>>
    /\ NoSweep
    /\ NoSeed

NextBlinker ==
    \/ ProcessBegin(BlinkerGens)
    \/ ProcessStep
    \/ ProcessReturn

SpecBlinker == InitBlinker /\ [][NextBlinker]_vars

(***************************************************************************)
(* main.rs: the driver loop.                                               *)
(***************************************************************************)
InitDriver ==
    /\ t \in {Term(w, h) : w \in 1..DriverW, h \in 1..DriverH}
    /\ lb \in {From(t, draw) : draw \in Draws(t.w, t.h, DriverAlive)}
    /\ history = push_front(<<>>, lb)
    /\ pc = "loop"
    /\ generation = 0
    /\ NoSweep
    /\ NoSeed

\* The top of the loop: the events are polled, the history is drawn.
DriverRender ==
    /\ pc = "loop"
    /\ \E quit \in BOOLEAN : pc' = IF quit THEN "exit" ELSE "process"
    /\ UNCHANGED <<t, lb, next, pos, neighbours, indexed, pre, readGrid, generation,
                   kind, anchor, result, before, reassigned, history>>

\* lb = lb.process();
DriverProcess ==
    /\ pc = "process" /\ generation < MaxIter
    /\ lb' = process(lb)
    /\ generation' = generation + 1
    /\ pc' = "push"
    /\ UNCHANGED <<t, next, pos, neighbours, indexed, pre, readGrid,
                   kind, anchor, result, before, reassigned, history>>

\* history.push_back(lb.clone());
DriverPush ==
    /\ pc = "push"
    /\ history' = push_back(history, lb)
    /\ pc' = "evict"
    /\ UNCHANGED <<t, lb, next, pos, neighbours, indexed, pre, readGrid, generation,
                   kind, anchor, result, before, reassigned>>

\* if history.len() > history_len { history.pop_front(); } and the sleep.
DriverEvict ==
    /\ pc = "evict"
    /\ history' = IF Len(history) > history_len THEN pop_front(history) ELSE history
    /\ pc' = "loop"
    /\ UNCHANGED <<t, lb, next, pos, neighbours, indexed, pre, readGrid, generation,
                   kind, anchor, result, before, reassigned>>

NextDriver ==
    \/ DriverRender
    \/ DriverProcess
    \/ DriverPush
    \/ DriverEvict

SpecDriver == InitDriver /\ [][NextDriver]_vars

(***************************************************************************)
(* What the claims speak of.                                               *)
(***************************************************************************)
\* The positions of the grid the Term asked for.
Positions == (0..(t.h - 1)) \X (0..(t.w - 1))

IsAlive(board, r, c) == board.cells[r + 1][c + 1].state = "Alive"

AliveSet(board) == {p \in Positions : IsAlive(board, p[1], p[2])}

\* The in-grid positions next to (r, c).
Around(r, c) ==
    {p \in Positions :
        /\ p # <<r, c>>
        /\ p[1] - r \in {-1, 0, 1}
        /\ p[2] - c \in {-1, 0, 1}}

\* The number of Alive in-grid neighbours of (r, c) in board.
LiveAround(board, r, c) ==
    Cardinality({p \in Around(r, c) : IsAlive(board, p[1], p[2])})

\* The classic rule: is (r, c) Alive in the generation after board?
ClassicAlive(board, r, c) ==
    IF IsAlive(board, r, c)
    THEN LiveAround(board, r, c) \in {2, 3}
    ELSE LiveAround(board, r, c) = 3

\* The sweep has visited every cell and process is about to return next.
Swept == pc = "sweep" /\ pos = CellCount(next)

\* The cell the last turn of the sweep worked on.
LastRow == (pos - 1) \div t.w
LastCol == (pos - 1) % t.w

\* An insert_* has been called and the board is as it left it.
Seeded == result # "none" /\ ~reassigned

\* The cells of the 3 x 3 footprint the pattern makes Alive.
PatternCells ==
    IF kind = "oscillator"
    THEN {<<anchor.r, anchor.c + 1>>, <<anchor.r + 1, anchor.c + 1>>,
          <<anchor.r + 2, anchor.c + 1>>}
    ELSE {<<anchor.r, anchor.c + 1>>, <<anchor.r + 1, anchor.c + 2>>,
          <<anchor.r + 2, anchor.c>>, <<anchor.r + 2, anchor.c + 1>>,
          <<anchor.r + 2, anchor.c + 2>>}

PatternAlive ==
    \A p \in PatternCells : p \in Positions /\ IsAlive(lb, p[1], p[2])

NonNegativeAnchor == anchor.r >= 0 /\ anchor.c >= 0

(***************************************************************************)
(* C1: when process has swept the whole clone, every cell of the clone is  *)
(* Alive exactly when the classic rule, applied to the board process was   *)
(* entered with, says so: an Alive cell with 2 or 3 Alive in-grid          *)
(* neighbours, or a Dead cell with exactly 3.                              *)
(***************************************************************************)
C1_ClassicRule ==
    Swept => \A p \in Positions :
                 IsAlive(next, p[1], p[2]) <=> ClassicAlive(pre, p[1], p[2])

\* A sweep that saw a birth, a death by crowding and a survival on 3.
C1_Witness ==
    /\ Swept
    /\ \E p \in Positions :
          ~IsAlive(pre, p[1], p[2]) /\ IsAlive(next, p[1], p[2])
    /\ \E p \in Positions :
          /\ IsAlive(pre, p[1], p[2]) /\ ~IsAlive(next, p[1], p[2])
          /\ LiveAround(pre, p[1], p[2]) >= 4
    /\ \E p \in Positions :
          /\ IsAlive(pre, p[1], p[2]) /\ IsAlive(next, p[1], p[2])
          /\ LiveAround(pre, p[1], p[2]) = 3

(***************************************************************************)
(* C2: at every turn of the sweep the grid count_neighbours was called on  *)
(* is the grid process was entered with, the caller's board is still that  *)
(* grid (the writes went to the clone), and the count taken is the count   *)
(* of that grid.                                                           *)
(***************************************************************************)
C2_SweepReadsSnapshot ==
    (pc = "sweep" /\ pos > 0) =>
        /\ readGrid = pre.cells
        /\ lb = pre
        /\ neighbours = LiveAround(pre, LastRow, LastCol)

\* In the middle of a sweep whose clone already differs from the snapshot
\* next to the cell just counted.
C2_Witness ==
    /\ pc = "sweep" /\ pos > 1 /\ pos < CellCount(next)
    /\ \E p \in Around(LastRow, LastCol) :
          /\ p[1] * t.w + p[2] < pos - 1
          /\ IsAlive(next, p[1], p[2]) # IsAlive(pre, p[1], p[2])

(***************************************************************************)
(* C3: the board always has t.h rows of t.w cells, its dimensions are the  *)
(* Term it was made from, and every cell's location is its index.          *)
(***************************************************************************)
C3_Shape ==
    /\ lb.dimensions = t
    /\ Len(lb.cells) = t.h
    /\ \A r \in 1..Len(lb.cells) :
          /\ Len(lb.cells[r]) = t.w
          /\ \A c \in 1..Len(lb.cells[r]) :
                lb.cells[r][c].location = CellLocation(r - 1, c - 1)

\* A board that is not square, after two generations.
C3_Witness ==
    /\ pc = "idle" /\ generation >= 2
    /\ t.w > t.h /\ t.h > 1

(***************************************************************************)
(* C4: the positions count_neighbours indexes are the in-grid positions    *)
(* next to the cell, no other, and the count for the corner cell (0, 0) is *)
(* at most 3.                                                              *)
(***************************************************************************)
C4_InBounds ==
    /\ \A loc \in indexed :
          loc.r >= 0 /\ loc.r < t.h /\ loc.c >= 0 /\ loc.c < t.w
    /\ (pc = "sweep" /\ pos > 0) =>
          {<<loc.r, loc.c>> : loc \in indexed} = Around(LastRow, LastCol)
    /\ (pc = "sweep" /\ pos = 1) => neighbours <= 3

\* The corner cell counted with three Alive neighbours.
C4_Witness ==
    pc = "sweep" /\ pos = 1 /\ neighbours = 3 /\ Cardinality(indexed) = 3

(***************************************************************************)
(* C5: the vertical blinker on the 5 x 5 board: after every odd number of  *)
(* generations exactly (2,1), (2,2), (2,3) are Alive, after every even     *)
(* number exactly (1,2), (2,2), (3,2).                                     *)
(***************************************************************************)
C5_Blinker ==
    pc = "idle" =>
        AliveSet(lb) = IF generation % 2 = 0 THEN VerticalBlinker
                       ELSE HorizontalBlinker

\* Back at the vertical blinker after the second generation.
C5_Witness ==
    pc = "idle" /\ generation = 2 /\ AliveSet(lb) = VerticalBlinker

(***************************************************************************)
(* C6: insert_glider with a non-negative anchor that has                   *)
(* anchor.r >= height - 3 or anchor.c >= width - 3 returns None and leaves *)
(* every cell as it was.                                                   *)
(***************************************************************************)
C6_GliderNearEdgeFails ==
    (/\ Seeded /\ kind = "glider" /\ NonNegativeAnchor
     /\ (anchor.r >= t.h - 3 \/ anchor.c >= t.w - 3))
    => (result = "None" /\ lb.cells = before)

(***************************************************************************)
(* C7, as claimed: for a non-negative anchor the insert_* return None only *)
(* if the footprint passes the far edge (anchor.r + 2 > height - 1 or      *)
(* anchor.c + 2 > width - 1), and with the footprint inside the grid they  *)
(* return Some and the pattern is Alive.                                   *)
(***************************************************************************)
C7_FailsOnlyPastEdge ==
    (Seeded /\ NonNegativeAnchor) =>
        /\ result = "None" => (anchor.r > t.h - 3 \/ anchor.c > t.w - 3)
        /\ (anchor.r <= t.h - 3 /\ anchor.c <= t.w - 3)
              => (result = "Some" /\ PatternAlive)

(***************************************************************************)
(* C7, amended: for a non-negative anchor the insert_* return None only if *)
(* the footprint reaches or passes the last row or column                  *)
(* (anchor.r + 2 >= height - 1 or anchor.c + 2 >= width - 1), and with the *)
(* footprint short of the last row and the last column they return Some    *)
(* and the pattern is Alive.                                               *)
(***************************************************************************)
C7_FailsOnlyAtOrPastEdge ==
    (Seeded /\ NonNegativeAnchor) =>
        /\ result = "None" => (anchor.r >= t.h - 3 \/ anchor.c >= t.w - 3)
        /\ (anchor.r < t.h - 3 /\ anchor.c < t.w - 3)
              => (result = "Some" /\ PatternAlive)

\* A pattern put on cells of which one was Dead.
C7_Witness ==
    /\ Seeded /\ NonNegativeAnchor /\ result = "Some"
    /\ anchor.r < t.h - 3 /\ anchor.c < t.w - 3
    /\ lb.cells # before

C9_History ==
    /\ pc = "loop" =>
          /\ Len(history) <= history_len
          /\ Len(history) = IF generation + 1 < history_len THEN generation + 1
                            ELSE history_len
          /\ history[Len(history)] = lb
          /\ \A i \in 1..(Len(history) - 1) : history[i + 1] = process(history[i])
    /\ pc = "evict" =>
          /\ Len(history) <= history_len + 1
          /\ history[Len(history)] = lb

\* A full history after an eviction, its boards not all the same.
C9_Witness ==
    /\ pc = "loop" /\ generation > history_len
    /\ Len(history) = history_len
    /\ history[history_len - 1] # history[history_len]

(***************************************************************************)
(* C10: whatever the anchor, an insert_* either returns None with the grid *)
(* as it was, or returns Some having written inside the grid; it never     *)
(* indexes outside the grid.                                               *)
(***************************************************************************)
C10_InsertNeverIndexesOutside ==
    Seeded =>
        \/ (result = "None" /\ lb.cells = before)
        \/ (result = "Some" /\ PatternCells \subseteq Positions)

====
